---- MODULE Spec2Model ----
(***************************************************************************)
(* Cargo allocation script wfp1040.py: derive the targets, build the MILP, *)
(* solve it with CBC, extract the allocation and print it.                 *)
(*                                                                         *)
(* Numbers.  Tons are integers on a grid of Step tons.  A quota p[i] is    *)
(* the numerator of a fraction over PDen, so the targets t, q and the      *)
(* deviation variables u, v are kept multiplied by PDen.  The objective    *)
(* is kept multiplied by 1000 * PDen, so alpha = 1.0 is AlphaMilli = 1000  *)
(* and beta = 0.001 is BetaMilli = 1.  Indices are 1-based.                *)
(***************************************************************************)
EXTENDS Integers, Sequences, FiniteSets

VARIABLES pc, m, n, S, r, p, T, R, t, q, status, values,
          x_sol, tons_assigned, revenue_assigned, err

vars == <<pc, m, n, S, r, p, T, R, t, q, status, values,
          x_sol, tons_assigned, revenue_assigned, err>>

---------------------------------------------------------------------------
(* Bounds of the model *)

Step == 5
MaxXK == 11
PDen == 2
MaxRate == 2
MaxDemandK == 22

(* Program constants *)

LinkMax == 50
LinkMin == 10
CommentMax == 40
AlphaMilli == 1000
BetaMilli == 1

---------------------------------------------------------------------------
(* Arithmetic helpers *)

Abs(a) == IF a < 0 THEN -a ELSE a

RECURSIVE SumTo(_, _)
SumTo(f, k) == IF k = 0 THEN 0 ELSE f[k] + SumTo(f, k - 1)

---------------------------------------------------------------------------
(* Inputs: lines 5-15 *)

(* m and n are inputs of the script; it is run for every m and n in Sizes. *)
Sizes == {1, 2}
XVals == {k * Step : k \in 0..MaxXK}
Quotas == 0..PDen
WideDemands == {k * Step : k \in 0..MaxDemandK}
SmallDemands == {k * Step : k \in {0, 2}}

Dataset(mm, nn, SS, rr, pp) == [m |-> mm, n |-> nn, S |-> SS, r |-> rr, p |-> pp]

(* Wide range of demands, fixed rates 2, 3 and equal quotas 1/PDen. *)
WideInputs ==
    UNION { { Dataset(mm, nn, SS, [j \in 1..mm |-> j + 1], [i \in 1..nn |-> 1]) :
                nn \in Sizes, SS \in [1..mm -> WideDemands] } : mm \in Sizes }

(* Small demands, every rate and quota. *)
FairInputs ==
    UNION { UNION { { Dataset(mm, nn, SS, rr, pp) :
                        SS \in [1..mm -> SmallDemands], rr \in [1..mm -> 1..MaxRate],
                        pp \in [1..nn -> Quotas] } : nn \in Sizes } : mm \in Sizes }

(* Data the script never validates: negative demands or rates, and rate or
   quota lists whose length is not m or n. *)
MalformedInputs ==
    UNION { UNION {
        { Dataset(mm, nn, SS, [j \in 1..mm |-> 2], [i \in 1..nn |-> 1]) :
            SS \in {s \in [1..mm -> {-Step, 2 * Step}] : \E j \in 1..mm : s[j] < 0} }
        \cup
        { Dataset(mm, nn, [j \in 1..mm |-> 2 * Step], rr, [i \in 1..nn |-> 1]) :
            rr \in {f \in [1..mm -> {-1, 2}] : \E j \in 1..mm : f[j] < 0} }
        \cup
        { Dataset(mm, nn, [j \in 1..mm |-> 2 * Step], [j \in 1..k |-> 2], [i \in 1..nn |-> 1]) :
            k \in (0..3) \ {mm} }
        \cup
        { Dataset(mm, nn, [j \in 1..mm |-> 2 * Step], [j \in 1..mm |-> 2], [i \in 1..k |-> 1]) :
            k \in (0..3) \ {nn} }
      : nn \in Sizes } : mm \in Sizes }

Inputs == WideInputs \cup FairInputs \cup MalformedInputs
InputsOpt == FairInputs \cup MalformedInputs

---------------------------------------------------------------------------
(* Derived quantities: lines 17-21 *)

TotalDemand == SumTo(S, m)
TotalRevenue == SumTo([j \in 1..m |-> S[j] * r[j]], m)

---------------------------------------------------------------------------
(* Model: lines 23-62 *)

I == 1..n
J == 1..m
YSpace == [I -> [J -> {0, 1}]]

Column(x, j) == [i \in I |-> x[i][j]]
RowTons(x, i) == SumTo(x[i], m)
RowRev(x, i) == SumTo([j \in J |-> r[j] * x[i][j]], m)

(* Faulty variants of the rows below: the demand row written as an
   inequality; a linking row left out, or with the comment's 40, or with no
   minimum; the second tonnage row written with the sign of the first. *)
DemandAtMost(col, j) == SumTo(col, n) <= S[j]
LinkUpperMissing(xij, yij) == TRUE
LinkUpperForty(xij, yij) == xij <= CommentMax * yij
LinkLowerNoMinimum(xij, yij) == xij >= 0 * yij
TonnageLowerSameSign(total_tons, w, i) == w >= PDen * total_tons - t[i]

(* Line 39, for the column col of site j. *)
DemandConstraint(col, j) == SumTo(col, n) = S[j]
(* Lines 44, 45, for one pair. *)
LinkUpper(xij, yij) == xij <= LinkMax * yij
LinkLower(xij, yij) == xij >= LinkMin * yij
(* Lines 50, 51, 56, 57, for transporter i with total_tons (total_rev) and
   the value w of u[i] (v[i]); both sides are multiplied by PDen. *)
TonnageUpper(total_tons, w, i) == w >= PDen * total_tons - t[i]
TonnageLower(total_tons, w, i) == w >= -(PDen * total_tons - t[i])
RevenueUpper(total_rev, w, i) == w >= PDen * total_rev - q[i]
RevenueLower(total_rev, w, i) == w >= -(PDen * total_rev - q[i])

(* Line 62. *)
TonnagePart(u) == AlphaMilli * SumTo(u, n)
RevenuePart(v) == BetaMilli * SumTo(v, n)
Objective(u, v) == TonnagePart(u) + RevenuePart(v)

DemandOK(x) == \A j \in J : DemandConstraint(Column(x, j), j)
LinkOK(x, y) == \A i \in I : \A j \in J : LinkUpper(x[i][j], y[i][j]) /\ LinkLower(x[i][j], y[i][j])
TonnageOK(x, u) ==
    \A i \in I : TonnageUpper(RowTons(x, i), u[i], i) /\ TonnageLower(RowTons(x, i), u[i], i)
RevenueOK(x, v) ==
    \A i \in I : RevenueUpper(RowRev(x, i), v[i], i) /\ RevenueLower(RowRev(x, i), v[i], i)

Constraints(a) ==
    /\ DemandOK(a.x)
    /\ LinkOK(a.x, a.y)
    /\ TonnageOK(a.x, a.u)
    /\ RevenueOK(a.x, a.v)

---------------------------------------------------------------------------
(* Solver: line 65 *)

(* Grid values that u[i] and v[i] range over: no deviation of an allocation
   that serves the demands is larger than the caps. *)
UCap == PDen * Abs(T)
VCap == PDen * SumTo([j \in J |-> Abs(r[j]) * Abs(S[j])], m)
UVals == {k * Step : k \in 0..(UCap \div Step)}
VVals == {k * Step : k \in 0..(VCap \div Step)}

(* The demand and linking constraints mention one site each, so the pairs
   (x, y) that satisfy them are put together from the columns that do. *)
FeasibleColumn(j) ==
    {c \in [x : [I -> XVals], y : [I -> {0, 1}]] :
        /\ DemandConstraint(c.x, j)
        /\ \A i \in I : LinkUpper(c.x[i], c.y[i]) /\ LinkLower(c.x[i], c.y[i])}

FeasibleXY ==
    LET cols == [j \in J |-> FeasibleColumn(j)]
        pick == {f \in [J -> UNION {cols[j] : j \in J}] : \A j \in J : f[j] \in cols[j]}
    IN {[x |-> [i \in I |-> [j \in J |-> f[j].x[i]]],
         y |-> [i \in I |-> [j \in J |-> f[j].y[i]]]] : f \in pick}

(* The least value of the grid, from w up, that u[i] (v[i]) may take. *)
RECURSIVE LeastU(_, _, _)
LeastU(total_tons, i, w) ==
    IF w > UCap \/ (TonnageUpper(total_tons, w, i) /\ TonnageLower(total_tons, w, i)) THEN w
    ELSE LeastU(total_tons, i, w + Step)

RECURSIVE LeastV(_, _, _)
LeastV(total_rev, i, w) ==
    IF w > VCap \/ (RevenueUpper(total_rev, w, i) /\ RevenueLower(total_rev, w, i)) THEN w
    ELSE LeastV(total_rev, i, w + Step)

LeastUs(x) == [i \in I |-> LeastU(RowTons(x, i), i, 0)]
LeastVs(x) == [i \in I |-> LeastV(RowRev(x, i), i, 0)]

(* Each feasible pair (x, y) completed with the least u and v it admits:
   the assignments that satisfy every constraint and whose deviation
   variables cannot be lowered. *)
Tightest ==
    {a \in {[x |-> xy.x, y |-> xy.y, u |-> LeastUs(xy.x), v |-> LeastVs(xy.x)] :
               xy \in FeasibleXY} :
        \A i \in I : a.u[i] <= UCap /\ a.v[i] <= VCap}

Least(vals) == CHOOSE a \in vals : \A b \in vals : a <= b

(* Values CBC leaves in the variables when it proves infeasibility. *)
Unsolved == [x : [I -> [J -> {0, Step}]], y : {[i \in I |-> [j \in J |-> b]] : b \in {0, 1}},
             u : {[i \in I |-> 0]}, v : {[i \in I |-> 0]}]

NoValues == [x |-> <<>>, y |-> <<>>, u |-> <<>>, v |-> <<>>]

---------------------------------------------------------------------------
(* The script, top to bottom *)

Start(data) ==
    /\ pc = "input"
    /\ \E d \in data : m = d.m /\ n = d.n /\ S = d.S /\ r = d.r /\ p = d.p
    /\ T = 0 /\ R = 0 /\ t = <<>> /\ q = <<>>
    /\ status = "Not Solved"
    /\ values = NoValues
    /\ x_sol = <<>> /\ tons_assigned = <<>> /\ revenue_assigned = <<>>
    /\ err = "none"

Init == Start(Inputs)
InitOpt == Start(InputsOpt)

(* Lines 18-21.  r[j] and p[i] raise IndexError on a list that is too short. *)
Derive ==
    /\ pc = "input"
    /\ \/ /\ Len(r) >= m /\ Len(p) >= n
          /\ T' = TotalDemand
          /\ R' = TotalRevenue
          /\ t' = [i \in I |-> p[i] * TotalDemand]
          /\ q' = [i \in I |-> p[i] * TotalRevenue]
          /\ pc' = "derived"
          /\ err' = err
       \/ /\ Len(r) < m \/ Len(p) < n
          /\ T' = TotalDemand
          /\ R' = IF Len(r) < m THEN R ELSE TotalRevenue
          /\ pc' = "crashed"
          /\ err' = "IndexError"
          /\ UNCHANGED <<t, q>>
    /\ UNCHANGED <<m, n, S, r, p, status, values, x_sol, tons_assigned, revenue_assigned>>

(* Lines 24-62: variables, constraints and objective are added to prob;
   nothing is validated and nothing can fail. *)
Build ==
    /\ pc = "derived"
    /\ pc' = "built"
    /\ UNCHANGED <<m, n, S, r, p, T, R, t, q, status, values,
                   x_sol, tons_assigned, revenue_assigned, err>>

(* Line 65: CBC without a time limit.  It ends Optimal with a minimiser of
   the objective over the constraints, or Infeasible.  Both weights are
   positive, so a minimiser is one of the Tightest assignments;
   C3_DeviationCorrectness compares them with the minimum taken over every
   u and v of the grid. *)
Solve ==
    /\ pc = "built"
    /\ \E feas \in {Tightest} :
          IF feas = {}
          THEN /\ status' = "Infeasible"
               /\ values' \in Unsolved
          ELSE \E best \in {Least({Objective(a.u, a.v) : a \in feas})} :
                  /\ status' = "Optimal"
                  /\ \E a \in feas :
                        /\ Objective(a.u, a.v) = best
                        /\ values' = a
    /\ pc' = "solved"
    /\ UNCHANGED <<m, n, S, r, p, T, R, t, q, x_sol, tons_assigned, revenue_assigned, err>>

(* Line 70: x_sol * np.array(r) broadcasts an (n, m) array with one of
   length Len(r): columns pair up when the lengths agree, a single column is
   repeated, anything else raises ValueError. *)
Broadcastable == Len(r) = m \/ m = 1

RevenueAssigned(x, i) ==
    IF Len(r) = m THEN SumTo([j \in J |-> x[i][j] * r[j]], m)
    ELSE SumTo([k \in 1..Len(r) |-> x[i][1] * r[k]], Len(r))

(* Lines 68-70: the status is not looked at. *)
Extract ==
    /\ pc = "solved"
    /\ x_sol' = values.x
    /\ tons_assigned' = [i \in I |-> RowTons(values.x, i)]
    /\ \/ /\ Broadcastable
          /\ revenue_assigned' = [i \in I |-> RevenueAssigned(values.x, i)]
          /\ pc' = "extracted"
          /\ err' = err
       \/ /\ ~Broadcastable
          /\ revenue_assigned' = revenue_assigned
          /\ pc' = "crashed"
          /\ err' = "ValueError"
    /\ UNCHANGED <<m, n, S, r, p, T, R, t, q, status, values>>

(* Lines 72-82: the two tables are printed. *)
Report ==
    /\ pc = "extracted"
    /\ pc' = "reported"
    /\ UNCHANGED <<m, n, S, r, p, T, R, t, q, status, values,
                   x_sol, tons_assigned, revenue_assigned, err>>

Next == Derive \/ Build \/ Solve \/ Extract \/ Report

Spec == Init /\ [][Next]_vars
SpecOpt == InitOpt /\ [][Next]_vars

---------------------------------------------------------------------------
(* Properties *)

Solved == pc \in {"solved", "extracted", "reported"}
Extracted == pc \in {"extracted", "reported"}
Pairs == I \X J

Coverage(x) == \A j \in J : SumTo(Column(x, j), n) = S[j]

(* C1: every assignment that satisfies the constraints, and every allocation
   extracted after an Optimal solve, serves each site exactly its demand. *)
C1_Coverage ==
    /\ pc = "built" => \A a \in FeasibleXY : Coverage(a.x)
    /\ (pc = "solved" /\ status = "Optimal") => Coverage(values.x)
    /\ (Extracted /\ status = "Optimal") => Coverage(x_sol)

C1_Witness ==
    /\ pc = "reported" /\ status = "Optimal" /\ n = 2
    /\ \E j \in J : x_sol[1][j] > 0 /\ x_sol[2][j] > 0

SemiContinuous(x, y) ==
    \A ij \in Pairs :
        LET xij == x[ij[1]][ij[2]]
            yij == y[ij[1]][ij[2]]
        IN /\ xij = 0 \/ (LinkMin <= xij /\ xij <= LinkMax)
           /\ yij = 1 <=> xij > 0

(* C2: in every assignment that satisfies the constraints each x[i][j] is 0
   or lies between the minimum 10 and the maximum 50, and y[i][j] = 1 exactly
   when x[i][j] > 0. *)
C2_SemiContinuity ==
    /\ pc = "built" => \A a \in FeasibleXY : SemiContinuous(a.x, a.y)
    /\ (pc = "solved" /\ status = "Optimal") => SemiContinuous(values.x, values.y)

C2_Witness ==
    /\ pc = "solved" /\ status = "Optimal"
    /\ \E ij \in Pairs : values.x[ij[1]][ij[2]] = 0 /\ values.y[ij[1]][ij[2]] = 0
    /\ \E ij \in Pairs : values.x[ij[1]][ij[2]] = LinkMax /\ values.y[ij[1]][ij[2]] = 1
    /\ \E ij \in Pairs : values.x[ij[1]][ij[2]] = LinkMin /\ values.y[ij[1]][ij[2]] = 1

(* Brute force over the grid: every u and every v that satisfy the deviation
   rows of an allocation x, the values the two parts of the objective take
   on them, and every objective value a feasible assignment has. *)
FeasibleU(x) == {u \in [I -> UVals] : TonnageOK(x, u)}
FeasibleV(x) == {v \in [I -> VVals] : RevenueOK(x, v)}
TonnageParts(x) == {TonnagePart(u) : u \in FeasibleU(x)}
RevenueParts(x) == {RevenuePart(v) : v \in FeasibleV(x)}
AllObjectives ==
    UNION {{a + b : a \in TonnageParts(xy.x), b \in RevenueParts(xy.x)} : xy \in FeasibleXY}

AbsTonsDev(x, i) == Abs(PDen * RowTons(x, i) - t[i])
AbsRevDev(x, i) == Abs(PDen * RowRev(x, i) - q[i])

(* C3: in every feasible assignment u[i] and v[i] are at least the absolute
   tonnage and revenue deviations of transporter i, and in every assignment
   whose objective is the minimum over all feasible assignments, the solver's
   among them, they equal those deviations.  (A feasible u belongs to a
   minimiser over x exactly when some feasible v brings the objective to the
   minimum, and the other way round.) *)
C3_DeviationCorrectness ==
    /\ (pc = "built" /\ FeasibleXY # {}) =>
          \E best \in {Least(AllObjectives)} :
             \A xy \in FeasibleXY :
                \E tparts \in {TonnageParts(xy.x)} : \E rparts \in {RevenueParts(xy.x)} :
                   /\ \A u \in FeasibleU(xy.x) : \A i \in I :
                         /\ u[i] >= AbsTonsDev(xy.x, i)
                         /\ (best - TonnagePart(u)) \in rparts => u[i] = AbsTonsDev(xy.x, i)
                   /\ \A v \in FeasibleV(xy.x) : \A i \in I :
                         /\ v[i] >= AbsRevDev(xy.x, i)
                         /\ (best - RevenuePart(v)) \in tparts => v[i] = AbsRevDev(xy.x, i)
    /\ (pc = "solved" /\ status = "Optimal") =>
          /\ Constraints(values)
          /\ Objective(values.u, values.v) = Least(AllObjectives)
          /\ \A i \in I : /\ values.u[i] = AbsTonsDev(values.x, i)
                          /\ values.v[i] = AbsRevDev(values.x, i)

C3_Witness ==
    /\ pc = "solved" /\ status = "Optimal" /\ n = 2
    /\ values.u[1] > 0 /\ values.v[2] > 0
    /\ values.x[1] # values.x[2]

C5_ReportOnlyAfterOptimal == Extracted => status = "Optimal"

Malformed ==
    \/ Len(r) # m
    \/ Len(p) # n
    \/ \E j \in 1..Len(S) : S[j] < 0
    \/ \E j \in 1..Len(r) : r[j] < 0
    \/ LinkMin > LinkMax

(* C6: for a malformed dataset no model is built, the solver is not called
   and nothing is reported. *)
C6_ValidationPrecedesSolving ==
    Malformed => pc \notin {"built", "solved", "extracted", "reported"}

WithY(a, i, j, b) == [a EXCEPT !.y[i][j] = b]

(* C7 as stated: at a site of demand 0 the allocations are 0 and each
   indicator may be set to 0 or to 1, the assignment staying feasible with
   the same objective. *)
C7_IndicatorsFree ==
    (pc = "solved" /\ status = "Optimal") =>
        \A j \in J : S[j] = 0 =>
            \A i \in I :
                /\ values.x[i][j] = 0
                /\ Constraints(WithY(values, i, j, 0))
                /\ Constraints(WithY(values, i, j, 1))
                /\ Objective(WithY(values, i, j, 0).u, WithY(values, i, j, 0).v)
                     = Objective(WithY(values, i, j, 1).u, WithY(values, i, j, 1).v)

(* C7 amended: at a site of demand 0 every feasible assignment has
   x[i][j] = 0 and y[i][j] = 0 for every transporter, and setting y[i][j] to 1
   breaks the linking row x[i][j] >= 10 * y[i][j]. *)
C7_IndicatorsForcedToZero ==
    /\ pc = "built" =>
          \A a \in FeasibleXY : \A j \in J : S[j] = 0 =>
              \A i \in I : a.x[i][j] = 0 /\ a.y[i][j] = 0
    /\ (pc = "solved" /\ status = "Optimal") =>
          \A j \in J : S[j] = 0 =>
              \A i \in I :
                  /\ values.x[i][j] = 0 /\ values.y[i][j] = 0
                  /\ Constraints(WithY(values, i, j, 0))
                  /\ ~Constraints(WithY(values, i, j, 1))

C7_Witness ==
    /\ pc = "solved" /\ status = "Optimal" /\ m = 2 /\ n = 2
    /\ S[1] > 0 /\ S[2] = 0
    /\ values.y[1][1] = 1 /\ values.y[1][2] = 0

ScenarioAllocation ==
    LET x == <<(<<20, 5>>), (<<0, 25>>)>>
    IN [x |-> x,
        y |-> <<(<<1, 1>>), (<<0, 1>>)>>,
        u |-> [i \in 1..2 |-> AbsTonsDev(x, i)],
        v |-> [i \in 1..2 |-> AbsRevDev(x, i)]]

(* C8: for demands 20, 30, rates 2, 3 and quotas 1/2, 1/2 the total is 50, the
   targets are 25 each, the allocation 20, 5 / 0, 25 satisfies every
   constraint, and every feasible objective is at least 0. *)
C8_Scenario ==
    (pc = "built" /\ m = 2 /\ n = 2 /\ S = <<20, 30>> /\ r = <<2, 3>>
        /\ \A i \in I : 2 * p[i] = PDen) =>
        /\ T = 50
        /\ \A i \in I : t[i] = PDen * 25
        /\ Constraints(ScenarioAllocation)
        /\ Coverage(ScenarioAllocation.x)
        /\ \A a \in Tightest : Objective(a.u, a.v) >= 0

(* C9: y[i][j] = 0 forces x[i][j] = 0 and y[i][j] = 1 forces
   10 <= x[i][j] <= 40, the bounds of the comment on line 41. *)
C9_CommentBounds ==
    pc = "built" =>
        \A a \in FeasibleXY : \A ij \in Pairs :
            LET xij == a.x[ij[1]][ij[2]]
                yij == a.y[ij[1]][ij[2]]
            IN /\ yij = 0 => xij = 0
               /\ yij = 1 => (LinkMin <= xij /\ xij <= CommentMax)

SiteServable(j) ==
    S[j] = 0 \/ \E k \in 1..n : k * LinkMin <= S[j] /\ S[j] <= k * LinkMax

(* C10: the model is feasible exactly when every site has demand 0 or a
   demand that some k of the n transporters can share within the bounds. *)
C10_FeasibleSiteBySite ==
    /\ pc = "built" => (Tightest # {} <=> \A j \in J : SiteServable(j))
    /\ pc = "solved" => (status = "Optimal" <=> \A j \in J : SiteServable(j))

C10_Witness ==
    /\ pc = "solved" /\ status = "Optimal" /\ n = 2 /\ m = 2
    /\ S[1] > LinkMax /\ S[2] = LinkMin /\ r[1] # r[2]

====
